---- MODULE Spec2Model ----
(***************************************************************************)
(* A model of wasm-core/src/lib.rs: the three exported functions           *)
(* normalize_metric_series, correlate_metric_series and                    *)
(* shape_resource_status, called one at a time by the host.                *)
(*                                                                         *)
(* f64 is modelled bit-exactly as IEEE 754 binary64 (53-bit significand,   *)
(* round to nearest even, subnormals, infinities, one NaN), on top of      *)
(* arbitrary-precision naturals, because the claims depend on rounding and *)
(* on overflow. The one abstraction: +0.0 and -0.0 are a single zero (the  *)
(* code never divides by a zero and never inspects a sign bit).            *)
(* Strings are sequences of one-character strings.                         *)
(***************************************************************************)
EXTENDS Integers, Sequences, FiniteSets, TLC

(***************************************************************************)
(* Arbitrary-precision naturals: little-endian sequences of limbs below    *)
(* Base, without high zero limbs; zero is the empty sequence. The limb     *)
(* size is a parameter of the representation: the arithmetic is the same   *)
(* for any size whose limb products fit TLC's integers.                    *)
(***************************************************************************)
LimbBits == 14

RECURSIVE Pow2(_)
Pow2(k) == IF k = 0 THEN 1 ELSE 2 * Pow2(k - 1)

Base == Pow2(LimbBits)

Limb(a, i) == IF i <= Len(a) THEN a[i] ELSE 0

Pow2T == [k \in 0..LimbBits |-> Pow2(k)]

RECURSIVE BNorm(_)
BNorm(a) ==
    IF a = <<>> THEN <<>>
    ELSE IF a[Len(a)] = 0 THEN BNorm(SubSeq(a, 1, Len(a) - 1))
    ELSE a

RECURSIVE BFromNat(_)
BFromNat(n) == IF n = 0 THEN <<>> ELSE <<n % Base>> \o BFromNat(n \div Base)

RECURSIVE BAddFrom(_, _, _, _)
BAddFrom(a, b, i, c) ==
    IF i > Len(a) /\ i > Len(b)
    THEN (IF c = 0 THEN <<>> ELSE <<c>>)
    ELSE LET s == Limb(a, i) + Limb(b, i) + c
         IN  <<s % Base>> \o BAddFrom(a, b, i + 1, s \div Base)

BAdd(a, b) == BAddFrom(a, b, 1, 0)

\* a - b for a >= b
RECURSIVE BSubFrom(_, _, _, _)
BSubFrom(a, b, i, c) ==
    IF i > Len(a) THEN <<>>
    ELSE LET d == a[i] - Limb(b, i) - c
         IN  IF d < 0 THEN <<d + Base>> \o BSubFrom(a, b, i + 1, 1)
             ELSE <<d>> \o BSubFrom(a, b, i + 1, 0)

BSub(a, b) == BNorm(BSubFrom(a, b, 1, 0))

\* -1, 0, 1 as a < b, a = b, a > b
RECURSIVE BCmpFrom(_, _, _)
BCmpFrom(a, b, i) ==
    IF i = 0 THEN 0
    ELSE IF a[i] < b[i] THEN -1
    ELSE IF a[i] > b[i] THEN 1
    ELSE BCmpFrom(a, b, i - 1)

BCmp(a, b) ==
    IF Len(a) < Len(b) THEN -1
    ELSE IF Len(a) > Len(b) THEN 1
    ELSE BCmpFrom(a, b, Len(a))

\* a * d for a limb-sized d
RECURSIVE BMulSmallFrom(_, _, _, _)
BMulSmallFrom(a, d, i, c) ==
    IF i > Len(a)
    THEN (IF c = 0 THEN <<>> ELSE <<c>>)
    ELSE LET p == a[i] * d + c
         IN  <<p % Base>> \o BMulSmallFrom(a, d, i + 1, p \div Base)

BMulSmall(a, d) == IF d = 0 THEN <<>> ELSE BMulSmallFrom(a, d, 1, 0)

Zeros(n) == [i \in 1..n |-> 0]

RECURSIVE BMulFrom(_, _, _)
BMulFrom(a, b, j) ==
    IF j > Len(b) THEN <<>>
    ELSE BAdd(Zeros(j - 1) \o BMulSmall(a, b[j]), BMulFrom(a, b, j + 1))

BMul(a, b) == IF a = <<>> \/ b = <<>> THEN <<>> ELSE BNorm(BMulFrom(a, b, 1))

\* a * 2^k
BShl(a, k) ==
    IF a = <<>> THEN <<>>
    ELSE Zeros(k \div LimbBits) \o BMulSmall(a, Pow2T[k % LimbBits])

\* floor(a / 2^k)
BShr(a, k) ==
    LET q == k \div LimbBits
        r == k % LimbBits
        n == Len(a) - q
    IN  IF n <= 0 THEN <<>>
        ELSE BNorm([i \in 1..n |->
                 (a[q + i] \div Pow2T[r])
                 + (Limb(a, q + i + 1) % Pow2T[r]) * Pow2T[LimbBits - r]])

\* a mod 2^k
BLow(a, k) ==
    LET q == k \div LimbBits
        r == k % LimbBits
    IN  IF Len(a) <= q THEN a
        ELSE BNorm(SubSeq(a, 1, q) \o <<a[q + 1] % Pow2T[r]>>)

RECURSIVE NatBitLen(_)
NatBitLen(n) == IF n = 0 THEN 0 ELSE 1 + NatBitLen(n \div 2)

BBitLen(a) ==
    IF a = <<>> THEN 0 ELSE (Len(a) - 1) * LimbBits + NatBitLen(a[Len(a)])

BIsOdd(a) == a # <<>> /\ a[1] % 2 = 1

BPow2(k) == BShl(<<1>>, k)

\* bit j (from 0) of a
BBit(a, j) == (Limb(a, j \div LimbBits + 1) \div Pow2T[j % LimbBits]) % 2

\* Long division: n more quotient bits of r / d for qr = <<q, r>>, r < d.
\* <<quotient, remainder>>
RECURSIVE BDivSteps(_, _, _)
BDivSteps(qr, d, n) ==
    IF n = 0 THEN qr
    ELSE LET r2 == BAdd(qr[2], qr[2])
         IN  IF BCmp(r2, d) >= 0
             THEN BDivSteps(<<BAddFrom(qr[1], qr[1], 1, 1), BSub(r2, d)>>, d, n - 1)
             ELSE BDivSteps(<<BAdd(qr[1], qr[1]), r2>>, d, n - 1)

\* Digit-by-digit square root of a * 2^k, from bit pair i down to pair 0,
\* for rr = <<root so far, remainder so far>>. <<root, remainder>>
RECURSIVE BSqrtSteps(_, _, _, _)
BSqrtSteps(a, k, rr, i) ==
    IF i < 0 THEN rr
    ELSE LET bitAt(j) == IF j >= k THEN BBit(a, j - k) ELSE 0
             rem4 == BMulSmallFrom(rr[2], 4, 1, 2 * bitAt(2 * i + 1) + bitAt(2 * i))
             trial == BMulSmallFrom(rr[1], 4, 1, 1)
         IN  IF BCmp(rem4, trial) >= 0
             THEN BSqrtSteps(a, k, <<BAddFrom(rr[1], rr[1], 1, 1), BSub(rem4, trial)>>, i - 1)
             ELSE BSqrtSteps(a, k, <<BAdd(rr[1], rr[1]), rem4>>, i - 1)

(***************************************************************************)
(* f64: IEEE 754 binary64. A finite value is (-1)^s * m * 2^e with m below *)
(* 2^Precision; canonical form: e = MinE for zero and subnormals, and      *)
(* m >= 2^(Precision-1) otherwise.                                         *)
(***************************************************************************)
Precision == 53
MinE == -1074
MaxE == 971

Fin(s, m, e) == [k |-> "fin", s |-> s, m |-> m, e |-> e]
Inf(s) == [k |-> "inf", s |-> s, m |-> <<>>, e |-> 0]
NaN == [k |-> "nan", s |-> 0, m |-> <<>>, e |-> 0]
Zero == Fin(0, <<>>, MinE)

IsNaN(x) == x.k = "nan"
IsInf(x) == x.k = "inf"
IsFinite(x) == x.k = "fin"
IsZero(x) == x.k = "fin" /\ x.m = <<>>

\* RoundF(s, M, E, sticky) is the f64 nearest to (-1)^s * v, ties to even,
\* where v = M * 2^E when ~sticky, and M * 2^E < v < (M + 1) * 2^E when sticky
\* (M then has over Precision bits). Its steps, last first:
\* the value (-1)^s * q * 2^e for q of at most Precision bits
Pack(s, q, e) == IF e > MaxE THEN Inf(s) ELSE Fin(s, q, e)

\* ... for q of at most Precision + 1 bits (rounding up may carry)
PackCarry(s, q, e) ==
    IF q = <<>> THEN Zero
    ELSE IF BBitLen(q) > Precision THEN Pack(s, BShr(q, 1), e + 1)
    ELSE Pack(s, q, e)

\* q0 rounded up or not: c compares the bits dropped with half a unit
RoundUp(q0, c, sticky) ==
    IF c > 0 \/ (c = 0 /\ (sticky \/ BIsOdd(q0))) THEN BAdd(q0, <<1>>) ELSE q0

\* M / 2^sh rounded to an integer
Rounded(M, sh, sticky) ==
    IF sh <= 0 THEN BShl(M, -sh)
    ELSE IF sh > BBitLen(M) + 1 THEN <<>>
    ELSE RoundUp(BShr(M, sh), BCmp(BLow(M, sh), BPow2(sh - 1)), sticky)

\* the exponent of the unit in the last place: not below the subnormals'
UnitExp(e) == IF e > MinE THEN e ELSE MinE

RoundAt(s, M, E, sticky, et) == PackCarry(s, Rounded(M, et - E, sticky), et)

RoundF(s, M, E, sticky) ==
    IF M = <<>> THEN Zero
    ELSE RoundAt(s, M, E, sticky, UnitExp(E + BBitLen(M) - Precision))

FromInt(n) == IF n < 0 THEN RoundF(1, BFromNat(-n), 0, FALSE)
              ELSE RoundF(0, BFromNat(n), 0, FALSE)

\* f64::MAX, f64::EPSILON, f64::INFINITY, f64::NEG_INFINITY
F64Max == Fin(0, BSub(BPow2(Precision), <<1>>), MaxE)
EPSILON == RoundF(0, <<1>>, 1 - Precision, FALSE)
INFINITY == Inf(0)
NEG_INFINITY == Inf(1)

Neg(x) == IF IsNaN(x) \/ IsZero(x) THEN x ELSE [x EXCEPT !.s = 1 - x.s]
Abs(x) == IF IsNaN(x) THEN x ELSE [x EXCEPT !.s = 0]

\* -1, 0, 1 for the magnitudes of two finite values
CmpMag(x, y) ==
    IF x.m = <<>> \/ y.m = <<>> THEN BCmp(x.m, y.m)
    ELSE IF x.e < y.e THEN -1
    ELSE IF x.e > y.e THEN 1
    ELSE BCmp(x.m, y.m)

\* -1, 0, 1 for two values neither of which is NaN
Cmp(x, y) ==
    IF IsInf(x) \/ IsInf(y)
    THEN (IF IsInf(x) /\ IsInf(y) /\ x.s = y.s THEN 0
          ELSE IF IsInf(x) THEN (IF x.s = 0 THEN 1 ELSE -1)
          ELSE (IF y.s = 0 THEN -1 ELSE 1))
    ELSE IF x.s # y.s THEN (IF x.s = 0 THEN 1 ELSE -1)
    ELSE IF x.s = 0 THEN CmpMag(x, y)
    ELSE CmpMag(y, x)

\* the operators <, <=, > of f64: false when either side is NaN
Lt(x, y) == ~IsNaN(x) /\ ~IsNaN(y) /\ Cmp(x, y) < 0
Le(x, y) == ~IsNaN(x) /\ ~IsNaN(y) /\ Cmp(x, y) <= 0
Gt(x, y) == Lt(y, x)
\* == of f64: NaN equals nothing
FEq(x, y) == ~IsNaN(x) /\ ~IsNaN(y) /\ Cmp(x, y) = 0

\* f64::min and f64::max: a NaN operand is ignored
FMin(x, y) == IF IsNaN(x) THEN y ELSE IF IsNaN(y) THEN x
              ELSE IF Cmp(x, y) <= 0 THEN x ELSE y
FMax(x, y) == IF IsNaN(x) THEN y ELSE IF IsNaN(y) THEN x
              ELSE IF Cmp(x, y) >= 0 THEN x ELSE y

\* The sum of two finite values. Far apart in exponent, the smaller one only
\* decides the rounding direction.
FarApart == 64

\* big and sml within FarApart binary places: B is big's significand
\* aligned to sml's exponent
AddExact(s, B, sml) ==
    RoundF(s, IF s = sml.s THEN BAdd(B, sml.m) ELSE BSub(B, sml.m), sml.e, FALSE)

\* farther apart: B is big's significand with two more places
AddSticky(big, ss, B) ==
    RoundF(big.s, IF big.s = ss THEN B ELSE BSub(B, <<1>>), big.e - 2, TRUE)

\* |big| >= |sml| > 0
AddOrdered(big, sml) ==
    IF big.e - sml.e <= FarApart
    THEN AddExact(big.s, BShl(big.m, big.e - sml.e), sml)
    ELSE AddSticky(big, sml.s, BShl(big.m, 2))

AddFin(x, y) ==
    IF IsZero(x) THEN y
    ELSE IF IsZero(y) THEN x
    ELSE IF CmpMag(x, y) >= 0 THEN AddOrdered(x, y)
    ELSE AddOrdered(y, x)

Add(x, y) ==
    IF IsNaN(x) \/ IsNaN(y) THEN NaN
    ELSE IF IsInf(x) THEN (IF IsInf(y) /\ x.s # y.s THEN NaN ELSE x)
    ELSE IF IsInf(y) THEN y
    ELSE AddFin(x, y)

Sub(x, y) == Add(x, Neg(y))

Xor(a, b) == IF a = b THEN 0 ELSE 1

Mul(x, y) ==
    IF IsNaN(x) \/ IsNaN(y) THEN NaN
    ELSE IF IsInf(x) \/ IsInf(y)
    THEN (IF IsZero(x) \/ IsZero(y) THEN NaN ELSE Inf(Xor(x.s, y.s)))
    ELSE IF IsZero(x) \/ IsZero(y) THEN Zero
    ELSE RoundF(Xor(x.s, y.s), BMul(x.m, y.m), x.e + y.e, FALSE)

\* An integer quotient or root qr[1] with its remainder qr[2], rounded
RoundQR(s, qr, E) == RoundF(s, qr[1], E, qr[2] # <<>>)

\* a / b * 2^E for a and b of Precision bits: long division gives
\* Precision + 3 more quotient bits, and the remainder decides the rounding
DivAligned(s, a, b, E) ==
    RoundQR(s,
            BDivSteps(IF BCmp(a, b) >= 0 THEN <<<<1>>, BSub(a, b)>> ELSE <<<<>>, a>>,
                      b, Precision + 3),
            E - (Precision + 3))

\* The quotient of two finite nonzero values
DivFin(x, y) ==
    DivAligned(Xor(x.s, y.s),
               BShl(x.m, Precision - BBitLen(x.m)),
               BShl(y.m, Precision - BBitLen(y.m)),
               x.e - y.e + BBitLen(x.m) - BBitLen(y.m))

Div(x, y) ==
    IF IsNaN(x) \/ IsNaN(y) THEN NaN
    ELSE IF IsInf(x) THEN (IF IsInf(y) THEN NaN ELSE Inf(Xor(x.s, y.s)))
    ELSE IF IsInf(y) THEN Zero
    ELSE IF IsZero(y) THEN (IF IsZero(x) THEN NaN ELSE Inf(x.s))
    ELSE IF IsZero(x) THEN Zero
    ELSE DivFin(x, y)

\* The root of m * 2^e, with m * 2^k of 2 * Precision + 4 bits or one more,
\* and e - k even
SqrtShifted(m, e, k) ==
    RoundQR(0, BSqrtSteps(m, k, <<<<>>, <<>>>>, (BBitLen(m) + k + 1) \div 2 - 1),
            (e - k) \div 2)

SqrtShift(m, e, k0) == IF (e - k0) % 2 = 0 THEN k0 ELSE k0 + 1

\* f64::sqrt
Sqrt(x) ==
    IF IsNaN(x) THEN NaN
    ELSE IF IsZero(x) THEN x
    ELSE IF x.s = 1 THEN NaN
    ELSE IF IsInf(x) THEN x
    ELSE SqrtShifted(x.m, x.e, SqrtShift(x.m, x.e, 2 * Precision + 4 - BBitLen(x.m)))

\* f64::clamp(self, min, max)
Clamp(x, lo, hi) == IF Lt(x, lo) THEN lo ELSE IF Gt(x, hi) THEN hi ELSE x


(***************************************************************************)
(* The host boundary. A JsValue is an array of JsValues, a number, or      *)
(* something else (null, a string, ...). serde_wasm_bindgen::from_value    *)
(* decodes a Vec<f64> from an array whose items are all numbers and fails  *)
(* on anything else; to_value of a Vec<f64> cannot fail.                   *)
(***************************************************************************)
JsNumber(x) == [tag |-> "number", items |-> <<>>, val |-> x]
JsArray(items) == [tag |-> "array", items |-> items, val |-> Zero]
JsNull == [tag |-> "null", items |-> <<>>, val |-> Zero]
JsString == [tag |-> "string", items |-> <<>>, val |-> Zero]

Ok(v) == [ok |-> TRUE, val |-> v, err |-> ""]
Err(msg) == [ok |-> FALSE, val |-> <<>>, err |-> msg]

from_value(js) ==
    IF js.tag = "array" /\ \A i \in DOMAIN js.items : js.items[i].tag = "number"
    THEN Ok([i \in DOMAIN js.items |-> js.items[i].val])
    ELSE Err("invalid type")

\* iter().fold(f64::INFINITY, |acc, value| acc.min(*value)), from item i on
RECURSIVE FoldMin(_, _, _)
FoldMin(acc, xs, i) == IF i > Len(xs) THEN acc ELSE FoldMin(FMin(acc, xs[i]), xs, i + 1)

\* iter().fold(f64::NEG_INFINITY, |acc, value| acc.max(*value)), from item i on
RECURSIVE FoldMax(_, _, _)
FoldMax(acc, xs, i) == IF i > Len(xs) THEN acc ELSE FoldMax(FMax(acc, xs[i]), xs, i + 1)

\* iter().sum::<f64>(), from item i on
RECURSIVE SumFrom(_, _, _)
SumFrom(acc, xs, i) == IF i > Len(xs) THEN acc ELSE SumFrom(Add(acc, xs[i]), xs, i + 1)

Sum(xs) == SumFrom(Zero, xs, 1)

(***************************************************************************)
(* normalize_metric_series                                                 *)
(***************************************************************************)
\* A variant with a plausible slip: no zero-variance fallback
Rescale_always_divides(input, min, max) ==
    Ok([i \in DOMAIN input |-> Div(Sub(input[i], min), Sub(max, min))])

\* lines 32-43: the zero-variance fallback, or the element-wise transform
Rescale(input, min, max) ==
    IF Lt(Abs(Sub(max, min)), EPSILON) THEN Ok([i \in DOMAIN input |-> Zero])
    ELSE Ok([i \in DOMAIN input |-> Div(Sub(input[i], min), Sub(max, min))])

\* lines 20-30
NormalizeDecoded(input) ==
    IF input = <<>> THEN Ok(<<>>)
    ELSE Rescale(input, FoldMin(INFINITY, input, 1), FoldMax(NEG_INFINITY, input, 1))

\* lines 17-18
NormalizeResult(decoded) ==
    IF ~decoded.ok THEN Err("Invalid input") ELSE NormalizeDecoded(decoded.val)

normalize_metric_series(values) == NormalizeResult(from_value(values))

(***************************************************************************)
(* correlate_metric_series                                                 *)
(***************************************************************************)
\* The body of the loop of lines 65-71 on acc = <<numerator, left_sq, right_sq>>
AccStep(acc, dl, dr) ==
    <<Add(acc[1], Mul(dl, dr)), Add(acc[2], Mul(dl, dl)), Add(acc[3], Mul(dr, dr))>>

\* The loop of lines 65-71 over the zipped pairs from i on
RECURSIVE Accumulate(_, _, _, _, _, _)
Accumulate(left_values, right_values, left_mean, right_mean, acc, i) ==
    IF i > Len(left_values) \/ i > Len(right_values) THEN acc
    ELSE Accumulate(left_values, right_values, left_mean, right_mean,
                    AccStep(acc, Sub(left_values[i], left_mean),
                                 Sub(right_values[i], right_mean)),
                    i + 1)

\* Variants with a plausible slip: the variance of the left side alone
\* guarded; no variance guard
Coefficient_left_guard(numerator, left_sq, right_sq) ==
    IF Le(left_sq, EPSILON) THEN Zero
    ELSE Clamp(Div(numerator, Mul(Sqrt(left_sq), Sqrt(right_sq))),
               FromInt(-1), FromInt(1))

Coefficient_no_guard(numerator, left_sq, right_sq) ==
    Clamp(Div(numerator, Mul(Sqrt(left_sq), Sqrt(right_sq))), FromInt(-1), FromInt(1))

\* lines 73-77
Coefficient(numerator, left_sq, right_sq) ==
    IF Le(left_sq, EPSILON) \/ Le(right_sq, EPSILON) THEN Zero
    ELSE Clamp(Div(numerator, Mul(Sqrt(left_sq), Sqrt(right_sq))),
               FromInt(-1), FromInt(1))

CoefficientOf(acc) == Coefficient(acc[1], acc[2], acc[3])

\* lines 57-59: the mean of a series of n values
Mean(xs, n) == Div(Sum(xs), n)

\* lines 57-77
Pearson(left_values, right_values) ==
    CoefficientOf(Accumulate(left_values, right_values,
                             Mean(left_values, FromInt(Len(left_values))),
                             Mean(right_values, FromInt(Len(left_values))),
                             <<Zero, Zero, Zero>>, 1))

\* A variant with a plausible slip: the lengths not compared
EmptyOnly(left_values, right_values) == left_values = <<>> \/ right_values = <<>>

\* line 53
EmptyOrMismatched(left_values, right_values) ==
    left_values = <<>> \/ right_values = <<>> \/ Len(left_values) # Len(right_values)

\* lines 53-77
Correlate(left_values, right_values) ==
    IF EmptyOrMismatched(left_values, right_values) THEN Ok(Zero)
    ELSE Ok(Pearson(left_values, right_values))

\* A variant with a plausible slip: the right input decoded first
CorrelateResult_right_first(l, r) ==
    IF ~r.ok THEN Err("Invalid right input")
    ELSE IF ~l.ok THEN Err("Invalid left input")
    ELSE Correlate(l.val, r.val)

\* lines 48-51: the left input is decoded first
CorrelateResult(l, r) ==
    IF ~l.ok THEN Err("Invalid left input")
    ELSE IF ~r.ok THEN Err("Invalid right input")
    ELSE Correlate(l.val, r.val)

correlate_metric_series(left, right) ==
    CorrelateResult(from_value(left), from_value(right))

(***************************************************************************)
(* Strings: sequences of one-character strings.                            *)
(***************************************************************************)
Upper == <<"A", "B", "C", "D", "E", "F", "G", "H", "I", "J", "K", "L", "M",
           "N", "O", "P", "Q", "R", "S", "T", "U", "V", "W", "X", "Y", "Z">>
Lower == <<"a", "b", "c", "d", "e", "f", "g", "h", "i", "j", "k", "l", "m",
           "n", "o", "p", "q", "r", "s", "t", "u", "v", "w", "x", "y", "z">>

\* char::to_ascii_lowercase (and char::to_lowercase, on the characters used)
LowerChar(c) ==
    IF \E i \in DOMAIN Upper : Upper[i] = c
    THEN Lower[CHOOSE i \in DOMAIN Upper : Upper[i] = c]
    ELSE c

\* str::to_lowercase
to_lowercase(str) == [i \in DOMAIN str |-> LowerChar(str[i])]

\* str::eq_ignore_ascii_case
eq_ignore_ascii_case(a, b) ==
    Len(a) = Len(b) /\ \A i \in DOMAIN a : LowerChar(a[i]) = LowerChar(b[i])

\* str::contains(&str)
contains(hay, needle) ==
    \E i \in 0..(Len(hay) - Len(needle)) : SubSeq(hay, i + 1, i + Len(needle)) = needle

K_pod == <<"p", "o", "d">>
K_running == <<"r", "u", "n", "n", "i", "n", "g">>
K_pending == <<"p", "e", "n", "d", "i", "n", "g">>
K_failed == <<"f", "a", "i", "l", "e", "d">>
K_error == <<"e", "r", "r", "o", "r">>
K_crash == <<"c", "r", "a", "s", "h">>
K_ready == <<"r", "e", "a", "d", "y">>

(***************************************************************************)
(* shape_resource_status                                                   *)
(***************************************************************************)
\* lines 85-94: the rules of the pod branch
PodBranch(normalized) ==
    IF contains(normalized, K_running) THEN "running"
    ELSE IF contains(normalized, K_pending) THEN "pending"
    ELSE IF contains(normalized, K_failed) \/ contains(normalized, K_error)
         THEN "error"
    ELSE "warning"

\* lines 97-107: the rules of every other kind
OtherBranch(normalized) ==
    IF contains(normalized, K_error) \/ contains(normalized, K_crash) THEN "error"
    ELSE IF contains(normalized, K_pending) THEN "pending"
    ELSE IF contains(normalized, K_running) \/ contains(normalized, K_ready)
         THEN "running"
    ELSE "warning"

\* Variants with a plausible slip: one rule list for every kind (the other
\* branch's, the pod branch's); "crash" also matched in the pod branch.
shape_resource_status_unified(kind, status) == OtherBranch(to_lowercase(status))

shape_resource_status_kind_ignored(kind, status) == PodBranch(to_lowercase(status))

shape_resource_status_pod_crash(kind, status) ==
    IF ~eq_ignore_ascii_case(kind, K_pod) THEN OtherBranch(to_lowercase(status))
    ELSE IF PodBranch(to_lowercase(status)) = "warning"
            /\ contains(to_lowercase(status), K_crash) THEN "error"
    ELSE PodBranch(to_lowercase(status))

shape_resource_status(kind, status) ==
    IF eq_ignore_ascii_case(kind, K_pod) THEN PodBranch(to_lowercase(status))
    ELSE OtherBranch(to_lowercase(status))

(***************************************************************************)
(* The inputs the host calls with.                                         *)
(***************************************************************************)
MaxLen == 3
CorrLen == 2
MaxTokens == 2

RECURSIVE SeqsUpTo(_, _)
SeqsUpTo(S, n) ==
    IF n = 0 THEN {<<>>}
    ELSE LET shorter == SeqsUpTo(S, n - 1)
         IN  shorter \cup {Append(q, x) : q \in {t \in shorter : Len(t) = n - 1}, x \in S}

RECURSIVE Concat(_)
Concat(ss) == IF ss = <<>> THEN <<>> ELSE Head(ss) \o Concat(Tail(ss))

Kinds == {
    <<"p", "o", "d">>,
    <<"P", "o", "d">>,
    <<"P", "O", "D">>,
    <<"p", "o", "d", "s">>,
    <<"p", "o">>,
    <<"d", "e", "p", "l", "o", "y", "m", "e", "n", "t">>,
    <<>>}

\* Statuses are made of these pieces: whole words, and halves that make a
\* keyword only when joined.
StatusTokens == {
    <<"R", "u", "n", "n", "i", "n", "g">>,
    <<"P", "e", "n", "d", "i", "n", "g">>,
    <<"F", "a", "i", "l", "e", "d">>,
    <<"E", "r", "r", "o", "r">>,
    <<"R", "e", "a", "d", "y">>,
    <<"U", "n", "k", "n", "o", "w", "n">>,
    <<"R", "u", "n">>,
    <<"n", "i", "n", "g">>,
    <<"C", "r", "a", "s", "h", "L", "o", "o", "p", "B", "a", "c", "k", "O", "f", "f">>,
    <<"n", "o", "t", "-", "r", "u", "n", "n", "i", "n", "g", "-", "a", "n", "y", "m", "o", "r", "e">>,
    <<"c", "o", "n", "t", "a", "i", "n", "e", "r", " ", "c", "r", "a", "s", "h">>}

Statuses == {Concat(ts) : ts \in SeqsUpTo(StatusTokens, MaxTokens)}

Tiny == RoundF(0, <<1>>, -60, FALSE)

NormValues == {Zero, FromInt(1), FromInt(2), FromInt(3), FromInt(5), Tiny,
               F64Max, Neg(F64Max), INFINITY, NaN}

NumberArrays(S) == {JsArray([i \in DOMAIN xs |-> JsNumber(xs[i])]) : xs \in SeqsUpTo(S, MaxLen)}

Malformed == {JsNull, JsNumber(FromInt(1)), JsArray(<<JsString>>),
              JsArray(<<JsNumber(FromInt(1)), JsNull>>)}

NormInputs == NumberArrays(NormValues) \cup Malformed

CorrValues == {FromInt(1), FromInt(2), FromInt(3)}

Ints(xs) == [i \in DOMAIN xs |-> FromInt(xs[i])]

\* Series beyond the short ones: the spec's examples, a constant, sums that
\* overflow, non-finite values, and values closer than EPSILON.
SpecialSeries == {
    Ints(<<1, 2, 3>>), Ints(<<3, 2, 1>>), Ints(<<1, 3, 2>>), Ints(<<7, 7, 7>>),
    <<F64Max, F64Max>>,
    <<F64Max, Neg(F64Max)>>,
    <<NaN, FromInt(1)>>,
    <<INFINITY, FromInt(1)>>,
    <<Tiny, Zero>>}

CorrSeries == SeqsUpTo(CorrValues, CorrLen) \cup SpecialSeries

CorrInputs == {JsArray([i \in DOMAIN xs |-> JsNumber(xs[i])]) : xs \in CorrSeries}
                  \cup Malformed

(***************************************************************************)
(* The host calls one export at a time: pc is "idle" between calls,        *)
(* "called" when the host has passed args to export fn, and "returned"     *)
(* when the export has produced ret.                                       *)
(***************************************************************************)
VARIABLES pc, fn, args, ret

vars == <<pc, fn, args, ret>>

NoRet == Ok(<<>>)

Init == pc = "idle" /\ fn = "none" /\ args = <<>> /\ ret = NoRet

Invoke(f, a) ==
    /\ pc = "idle"
    /\ pc' = "called"
    /\ fn' = f
    /\ args' = a
    /\ ret' = NoRet

HostCallsNormalize ==
    \E values \in NormInputs : Invoke("normalize_metric_series", <<values>>)

HostCallsCorrelate ==
    \E left \in CorrInputs, right \in CorrInputs :
        Invoke("correlate_metric_series", <<left, right>>)

HostCallsClassify ==
    \E kind \in Kinds, status \in Statuses :
        Invoke("shape_resource_status", <<kind, status>>)

RunNormalize ==
    /\ pc = "called" /\ fn = "normalize_metric_series"
    /\ ret' = normalize_metric_series(args[1])
    /\ pc' = "returned"
    /\ UNCHANGED <<fn, args>>

RunCorrelate ==
    /\ pc = "called" /\ fn = "correlate_metric_series"
    /\ ret' = correlate_metric_series(args[1], args[2])
    /\ pc' = "returned"
    /\ UNCHANGED <<fn, args>>

RunClassify ==
    /\ pc = "called" /\ fn = "shape_resource_status"
    /\ ret' = Ok(shape_resource_status(args[1], args[2]))
    /\ pc' = "returned"
    /\ UNCHANGED <<fn, args>>

Return ==
    /\ pc = "returned"
    /\ pc' = "idle"
    /\ fn' = "none"
    /\ args' = <<>>
    /\ ret' = NoRet

NextNormalize == HostCallsNormalize \/ RunNormalize \/ Return
NextCorrelate == HostCallsCorrelate \/ RunCorrelate \/ Return
NextClassify == HostCallsClassify \/ RunClassify \/ Return
Next == NextNormalize \/ NextCorrelate \/ NextClassify

SpecNormalize == Init /\ [][NextNormalize]_vars
SpecCorrelate == Init /\ [][NextCorrelate]_vars
SpecClassify == Init /\ [][NextClassify]_vars
Spec == Init /\ [][Next]_vars

(***************************************************************************)
(* The claims. Each is stated on the returned call: its arguments and its  *)
(* result, in terms of its own, not of the operators modelling the code.   *)
(***************************************************************************)
Returned(f) == pc = "returned" /\ fn = f

One == FromInt(1)
MinusOne == FromInt(-1)

\* a host value that decodes as a numeric sequence, and the sequence
IsNumberArray(js) == js.tag = "array" /\ \A i \in DOMAIN js.items : js.items[i].tag = "number"
Numbers(js) == [i \in DOMAIN js.items |-> js.items[i].val]
NumArray(xs) == JsArray([i \in DOMAIN xs |-> JsNumber(xs[i])])

---------------------------------------------------------------------------
\* The two ordered rule tables of the classifier: keywords, label.
PodRules == <<
    <<{K_running}, "running">>,
    <<{K_pending}, "pending">>,
    <<{K_failed, K_error}, "error">> >>

NonPodRules == <<
    <<{K_error, K_crash}, "error">>,
    <<{K_pending}, "pending">>,
    <<{K_running, K_ready}, "running">> >>

RuleMatches(rule, lowered) == \E kw \in rule[1] : contains(lowered, kw)

FirstMatch(rules, lowered) ==
    IF \E i \in DOMAIN rules : RuleMatches(rules[i], lowered)
    THEN rules[CHOOSE i \in DOMAIN rules :
                  /\ RuleMatches(rules[i], lowered)
                  /\ \A j \in 1..(i - 1) : ~RuleMatches(rules[j], lowered)][2]
    ELSE "warning"

IsPod(kind) == to_lowercase(kind) = K_pod

\* C1: for a kind equal to "pod" ignoring case, the label is that of the first
\* matching rule of running; pending; failed or error; else warning. A status
\* with both "running" and "error" gives running; one with none of the four
\* keywords gives warning.
C1_PodFirstMatch ==
    Returned("shape_resource_status") /\ IsPod(args[1]) =>
        LET lowered == to_lowercase(args[2])
        IN  /\ ret.ok
            /\ ret.val = FirstMatch(PodRules, lowered)
            /\ contains(lowered, K_running) /\ contains(lowered, K_error)
                  => ret.val = "running"
            /\ ~(\E kw \in {K_running, K_pending, K_failed, K_error} : contains(lowered, kw))
                  => ret.val = "warning"

C1_Witness ==
    /\ Returned("shape_resource_status")
    /\ args[1] = <<"P", "O", "D">>
    /\ contains(to_lowercase(args[2]), K_running)
    /\ contains(to_lowercase(args[2]), K_error)
    /\ ret.val = "running"

\* C2: for any other kind, the label is that of the first matching rule of
\* error or crash; pending; running or ready; else warning. A status with both
\* "running" and "error" gives error.
C2_NonPodFirstMatch ==
    Returned("shape_resource_status") /\ ~IsPod(args[1]) =>
        LET lowered == to_lowercase(args[2])
        IN  /\ ret.ok
            /\ ret.val = FirstMatch(NonPodRules, lowered)
            /\ contains(lowered, K_running) /\ contains(lowered, K_error)
                  => ret.val = "error"

C2_Witness ==
    /\ Returned("shape_resource_status")
    /\ args[1] = <<"d", "e", "p", "l", "o", "y", "m", "e", "n", "t">>
    /\ args[2] = <<"c", "o", "n", "t", "a", "i", "n", "e", "r", " ", "c", "r", "a", "s", "h">>
    /\ ret.val = "error"

\* C10 as stated: classify("pod", "CrashLoopBackOff") returns "error".
C10_CrashLoopIsError ==
    Returned("shape_resource_status") /\ args = <<K_pod, <<"C", "r", "a", "s", "h", "L", "o", "o", "p", "B", "a", "c", "k", "O", "f", "f">>>> =>
        ret.val = "error"

\* C10 as amended: classify("pod", "CrashLoopBackOff") returns "warning".
C10_CrashLoopIsWarning ==
    Returned("shape_resource_status") /\ args = <<K_pod, <<"C", "r", "a", "s", "h", "L", "o", "o", "p", "B", "a", "c", "k", "O", "f", "f">>>> =>
        ret.ok /\ ret.val = "warning"

C10_Witness ==
    /\ Returned("shape_resource_status")
    /\ args = <<K_pod, <<"C", "r", "a", "s", "h", "L", "o", "o", "p", "B", "a", "c", "k", "O", "f", "f">>>>
    /\ ret.val = "warning"

---------------------------------------------------------------------------
\* C3: when both inputs decode and either sequence is empty or the lengths
\* differ, correlate_metric_series returns Ok(0.0).
C3_FallbackZero ==
    /\ Returned("correlate_metric_series")
    /\ IsNumberArray(args[1]) /\ IsNumberArray(args[2])
    /\ \/ Len(args[1].items) = 0
       \/ Len(args[2].items) = 0
       \/ Len(args[1].items) # Len(args[2].items)
    => ret.ok /\ ret.val = Zero

C3_Witness ==
    /\ Returned("correlate_metric_series")
    /\ args = <<NumArray(Ints(<<1, 2>>)), NumArray(Ints(<<1, 2, 3>>))>>
    /\ ret.ok /\ ret.val = Zero

\* C4: a malformed input fails the call with an error naming its side; the left
\* input is decoded first, so two malformed inputs give the left error; the
\* error is given whatever the other side is.
C4_DecodeErrorNamesSide ==
    Returned("correlate_metric_series") =>
        /\ ~IsNumberArray(args[1]) => ~ret.ok /\ ret.err = "Invalid left input"
        /\ IsNumberArray(args[1]) /\ ~IsNumberArray(args[2])
              => ~ret.ok /\ ret.err = "Invalid right input"
        /\ IsNumberArray(args[1]) /\ IsNumberArray(args[2]) => ret.ok

C4_Witness ==
    /\ Returned("correlate_metric_series")
    /\ ~IsNumberArray(args[1]) /\ ~IsNumberArray(args[2])
    /\ ~ret.ok /\ ret.err = "Invalid left input"

---------------------------------------------------------------------------
\* The minimum and maximum of a series without NaN, by comparison.
MinOf(xs) == xs[CHOOSE i \in DOMAIN xs : \A j \in DOMAIN xs : Le(xs[i], xs[j])]
MaxOf(xs) == xs[CHOOSE i \in DOMAIN xs : \A j \in DOMAIN xs : Le(xs[j], xs[i])]
RangeOf(xs) == Sub(MaxOf(xs), MinOf(xs))

AllFinite(xs) == \A i \in DOMAIN xs : IsFinite(xs[i])
NoNaN(xs) == \A i \in DOMAIN xs : ~IsNaN(xs[i])
AllEqual(xs) == \A i, j \in DOMAIN xs : FEq(xs[i], xs[j])
BelowEpsilon(x) == Lt(Abs(x), EPSILON)
InUnitInterval(x) == Le(Zero, x) /\ Le(x, One)

\* the result for a series: same length, every element in [0,1], 0 where the
\* input has its minimum, 1 where it has its maximum, the input's order kept
NormalizedOnto(xs, out) ==
    /\ Len(out) = Len(xs)
    /\ \A i \in DOMAIN xs :
         /\ InUnitInterval(out[i])
         /\ FEq(xs[i], MinOf(xs)) => out[i] = Zero
         /\ FEq(xs[i], MaxOf(xs)) => out[i] = One
    /\ \A i, j \in DOMAIN xs : Le(xs[i], xs[j]) => Le(out[i], out[j])

\* C5 as stated: for every non-empty, non-constant series of finite values
\* (non-constant: max - min not below EPSILON), normalize_metric_series returns
\* a sequence of the same length and order, every element in [0,1], exactly 0
\* at the minimum's positions and exactly 1 at the maximum's.
C5_NormalizedOntoUnit ==
    /\ Returned("normalize_metric_series")
    /\ IsNumberArray(args[1])
    /\ Numbers(args[1]) # <<>>
    /\ AllFinite(Numbers(args[1]))
    /\ ~BelowEpsilon(RangeOf(Numbers(args[1])))
    => ret.ok /\ NormalizedOnto(Numbers(args[1]), ret.val)

\* What the code does give: the same, for the series whose range max - min is
\* itself finite (does not overflow).
NormalizedOntoUnitUnlessOverflow ==
    /\ Returned("normalize_metric_series")
    /\ IsNumberArray(args[1])
    /\ Numbers(args[1]) # <<>>
    /\ AllFinite(Numbers(args[1]))
    /\ ~BelowEpsilon(RangeOf(Numbers(args[1])))
    /\ IsFinite(RangeOf(Numbers(args[1])))
    => ret.ok /\ NormalizedOnto(Numbers(args[1]), ret.val)

\* C6: for every non-empty series of equal elements (max - min below EPSILON
\* in absolute value), normalize_metric_series returns as many zeros as the
\* input has elements, and no error; for the empty series, the empty sequence.
C6_ZeroVarianceGivesZeros ==
    Returned("normalize_metric_series") /\ IsNumberArray(args[1]) =>
        LET xs == Numbers(args[1])
        IN  /\ xs = <<>> => ret.ok /\ ret.val = <<>>
            /\ /\ xs # <<>>
               /\ NoNaN(xs)
               /\ (AllFinite(xs) /\ AllEqual(xs)) \/ BelowEpsilon(RangeOf(xs))
               => ret.ok /\ ret.val = [i \in DOMAIN xs |-> Zero]

C6_Witness ==
    /\ Returned("normalize_metric_series")
    /\ args[1] = NumArray(Ints(<<5, 5, 5>>))
    /\ ret.ok /\ ret.val = <<Zero, Zero, Zero>>

---------------------------------------------------------------------------
\* C7: swapping the two series gives the same result, on the fallback paths as
\* on the others.
C7_Symmetric ==
    /\ Returned("correlate_metric_series")
    /\ IsNumberArray(args[1]) /\ IsNumberArray(args[2])
    => ret = correlate_metric_series(args[2], args[1])

C7_Witness ==
    /\ Returned("correlate_metric_series")
    /\ args = <<NumArray(Ints(<<1, 2, 3>>)), NumArray(Ints(<<1, 3, 2>>))>>
    /\ ret.ok /\ Lt(Zero, ret.val) /\ Lt(ret.val, One)

\* C8 as stated: whenever both inputs decode, the result lies in [-1, 1]; it
\* is 0.0 for an empty or mismatched pair; correlate([1,2,3],[1,2,3]) = 1.0 and
\* correlate([1,2,3],[3,2,1]) = -1.0.
C8_WithinMinusOneAndOne ==
    /\ Returned("correlate_metric_series")
    /\ IsNumberArray(args[1]) /\ IsNumberArray(args[2])
    => /\ ret.ok
       /\ Le(MinusOne, ret.val) /\ Le(ret.val, One)
       /\ Len(args[1].items) # Len(args[2].items) => ret.val = Zero
       /\ args = <<NumArray(Ints(<<1, 2, 3>>)), NumArray(Ints(<<1, 2, 3>>))>>
             => ret.val = One
       /\ args = <<NumArray(Ints(<<1, 2, 3>>)), NumArray(Ints(<<3, 2, 1>>))>>
             => ret.val = MinusOne

\* The sum of squared deviations from the mean, as lines 57-71 accumulate it.
SquaredDeviations(xs) ==
    Sum([i \in DOMAIN xs |->
            Mul(Sub(xs[i], Div(Sum(xs), FromInt(Len(xs)))),
                Sub(xs[i], Div(Sum(xs), FromInt(Len(xs)))))])

IsConstantSeries(xs) == Le(SquaredDeviations(xs), EPSILON)

====
